---- MODULE Spec2Model ----
(***************************************************************************)
(* Model of src/app.py: the /translate request handler (translate_text),   *)
(* the language table it validates against, and the Gradio adapter         *)
(* (translate_gradio) that calls the handler in-process.                   *)
(*                                                                         *)
(* A text is a sequence of one-character strings, so that str.strip() is   *)
(* computed.  Language codes, display names, response bodies and message   *)
(* fragments are atomic strings; an f-string is the sequence of its parts. *)
(***************************************************************************)
EXTENDS Naturals, Sequences, FiniteSets

VARIABLES pc, entry, request, posts, response, outcome, ui

vars == <<pc, entry, request, posts, response, outcome, ui>>

(* ------------------------------ bounds -------------------------------- *)

\* longest request text drawn
MaxLen == 2
\* number of calls that may be in flight together (SpecConc)
NumCalls == 2

CallIds == 1..NumCalls

(* ------------------------------ config -------------------------------- *)

TRANSLATION_API_URL == "http://localhost:5000/translate"

\* the table with one display name typed twice
LanguageItemsDuplicateName ==
    << <<"en", "English">>, <<"es", "Spanish">>, <<"fr", "French">>,
       <<"de", "German">>, <<"it", "Italian">>, <<"pt", "Spanish">>,
       <<"ru", "Russian">>, <<"zh", "Chinese">>, <<"ar", "Arabic">>,
       <<"tr", "Turkish">>, <<"ja", "Japanese">>, <<"ko", "Korean">>,
       <<"hi", "Hindi">> >>

\* the dict literal, as its (key, value) items in source order
LanguageItems ==
    << <<"en", "English">>, <<"es", "Spanish">>, <<"fr", "French">>,
       <<"de", "German">>, <<"it", "Italian">>, <<"pt", "Portuguese">>,
       <<"ru", "Russian">>, <<"zh", "Chinese">>, <<"ar", "Arabic">>,
       <<"tr", "Turkish">>, <<"ja", "Japanese">>, <<"ko", "Korean">>,
       <<"hi", "Hindi">> >>

\* a Python dict built from (key, value) pairs: a later pair with the same
\* key overwrites an earlier one
DictOf(pairs) ==
    [k \in {pairs[i][1] : i \in DOMAIN pairs} |->
        LET last == CHOOSE i \in DOMAIN pairs :
                        /\ pairs[i][1] = k
                        /\ \A j \in DOMAIN pairs : pairs[j][1] = k => j <= i
        IN  pairs[last][2]]

SUPPORTED_LANGUAGES == DictOf(LanguageItems)

\* SUPPORTED_LANGUAGES.items(), in insertion order of the keys
RECURSIVE ItemsFrom(_, _, _)
ItemsFrom(pairs, i, seen) ==
    IF i > Len(pairs) THEN <<>>
    ELSE IF pairs[i][1] \in seen THEN ItemsFrom(pairs, i + 1, seen)
    ELSE <<pairs[i]>> \o ItemsFrom(pairs, i + 1, seen \cup {pairs[i][1]})

DictItems(pairs) ==
    LET d == DictOf(pairs)
        ks == ItemsFrom(pairs, 1, {})
    IN  [i \in DOMAIN ks |-> <<ks[i][1], d[ks[i][1]]>>]

\* {v: k for k, v in SUPPORTED_LANGUAGES.items()}
InvLangs ==
    LET items == DictItems(LanguageItems)
    IN  DictOf([i \in DOMAIN items |-> <<items[i][2], items[i][1]>>])

\* list(SUPPORTED_LANGUAGES.values()): the choices of both dropdowns
DropdownChoices ==
    LET items == DictItems(LanguageItems)
    IN  {items[i][2] : i \in DOMAIN items}

(* ------------------------------ values -------------------------------- *)

\* str.strip() with no argument removes these from both ends
Whitespace == {" ", "\t", "\n", "\r", "\f"}

RECURSIVE LStrip(_)
LStrip(t) ==
    IF t = <<>> THEN <<>>
    ELSE IF Head(t) \in Whitespace THEN LStrip(Tail(t))
    ELSE t

RECURSIVE RStrip(_)
RStrip(t) ==
    IF t = <<>> THEN <<>>
    ELSE IF t[Len(t)] \in Whitespace THEN RStrip(SubSeq(t, 1, Len(t) - 1))
    ELSE t

\* the check written as `if not request.text`
StripNothing(t) == t

Strip(t) == RStrip(LStrip(t))

\* TranslationRequest(text, source_lang, target_lang)
TranslationRequest(text, source_lang, target_lang) ==
    [text |-> text, source_lang |-> source_lang, target_lang |-> target_lang]

NoRequest == TranslationRequest(<<>>, "", "")

\* what leaves translate_text: nothing yet, a returned TranslationResponse,
\* or a raised HTTPException(status_code, detail)
NoOutcome ==
    [kind |-> "none", status_code |-> 0, detail |-> <<>>, translated_text |-> ""]

TranslationResponse(translated_text) ==
    [kind |-> "return", status_code |-> 200, detail |-> <<>>,
     translated_text |-> translated_text]

HTTPException(status_code, detail) ==
    [kind |-> "raise", status_code |-> status_code, detail |-> detail,
     translated_text |-> ""]

\* validation passed: execution goes on to the payload
Pass ==
    [kind |-> "pass", status_code |-> 0, detail |-> <<>>, translated_text |-> ""]

(* ---------------------------- translate_text -------------------------- *)

\* the target check left out
ValidateNoTarget(req) ==
    IF Strip(req.text) = <<>>
    THEN HTTPException(400, <<"Text is required.">>)
    ELSE IF req.source_lang \notin DOMAIN SUPPORTED_LANGUAGES
    THEN HTTPException(400, <<"Unsupported source language: ", req.source_lang>>)
    ELSE Pass

\* the language checks placed before the text check, target first
ValidateTargetFirst(req) ==
    IF req.target_lang \notin DOMAIN SUPPORTED_LANGUAGES
    THEN HTTPException(400, <<"Unsupported target language: ", req.target_lang>>)
    ELSE IF req.source_lang \notin DOMAIN SUPPORTED_LANGUAGES
    THEN HTTPException(400, <<"Unsupported source language: ", req.source_lang>>)
    ELSE IF Strip(req.text) = <<>>
    THEN HTTPException(400, <<"Text is required.">>)
    ELSE Pass

\* the three checks before the payload is built
Validate(req) ==
    IF Strip(req.text) = <<>>
    THEN HTTPException(400, <<"Text is required.">>)
    ELSE IF req.source_lang \notin DOMAIN SUPPORTED_LANGUAGES
    THEN HTTPException(400, <<"Unsupported source language: ", req.source_lang>>)
    ELSE IF req.target_lang \notin DOMAIN SUPPORTED_LANGUAGES
    THEN HTTPException(400, <<"Unsupported target language: ", req.target_lang>>)
    ELSE Pass

\* the form fields of the outbound request
Payload(req) ==
    [q |-> req.text, source |-> req.source_lang, target |-> req.target_lang,
     format |-> "text"]

\* client.post(TRANSLATION_API_URL, data=payload, headers=...)
Post(req) ==
    [url |-> TRANSLATION_API_URL, data |-> Payload(req),
     content_type |-> "application/x-www-form-urlencoded"]

\* what client.post gives back: a response (status_code, text), or a
\* transport failure whose str() is error
Response(status_code, text) ==
    [failed |-> FALSE, status_code |-> status_code, text |-> text, error |-> ""]

TransportFailure(error) ==
    [failed |-> TRUE, status_code |-> 0, text |-> "", error |-> error]

NoResponse == Response(0, "")

\* success taken to be 200 alone
IsSuccessOnly200(status_code) == status_code = 200

\* response.raise_for_status() raises unless the status is 2xx
IsSuccess(status_code) == status_code >= 200 /\ status_code <= 299

\* JSON documents: an object (its keys, and its translatedText member when
\* present), an array (its string elements), a string, null, or no JSON
JsonObject(keys, ttype, tvalue) ==
    [type |-> "object", keys |-> keys, ttype |-> ttype, tvalue |-> tvalue,
     str |-> ""]

JsonArray(elems) ==
    [type |-> "array", keys |-> elems, ttype |-> "absent", tvalue |-> "", str |-> ""]

JsonString(s) ==
    [type |-> "string", keys |-> {}, ttype |-> "absent", tvalue |-> "", str |-> s]

JsonNull ==
    [type |-> "null", keys |-> {}, ttype |-> "absent", tvalue |-> "", str |-> ""]

JsonInvalid ==
    [type |-> "invalid", keys |-> {}, ttype |-> "absent", tvalue |-> "", str |-> ""]

\* the response bodies drawn
BodyHola == "{\"translatedText\": \"Hola\"}"
BodyEmptyTranslation == "{\"translatedText\": \"\"}"
BodyNullTranslation == "{\"translatedText\": null}"
BodyEmptyObject == "{}"
BodyErrorObject == "{\"error\": \"Service busy\"}"
BodyEmptyArray == "[]"
BodyKeyAsString == "\"translatedText\""
BodyNull == "null"
BodyPlainText == "Service Unavailable"
BodyEmpty == ""

Bodies ==
    {BodyHola, BodyEmptyTranslation, BodyNullTranslation, BodyEmptyObject,
     BodyErrorObject, BodyEmptyArray, BodyKeyAsString, BodyNull, BodyPlainText,
     BodyEmpty}

\* response.json() on each body drawn
ResponseJson(text) ==
    CASE text = BodyHola -> JsonObject({"translatedText"}, "string", "Hola")
      [] text = BodyEmptyTranslation -> JsonObject({"translatedText"}, "string", "")
      [] text = BodyNullTranslation -> JsonObject({"translatedText"}, "null", "")
      [] text = BodyEmptyObject -> JsonObject({}, "absent", "")
      [] text = BodyErrorObject -> JsonObject({"error"}, "absent", "")
      [] text = BodyEmptyArray -> JsonArray({})
      [] text = BodyKeyAsString -> JsonString("translatedText")
      [] text = BodyNull -> JsonNull
      [] OTHER -> JsonInvalid

\* "translatedText" in data: key of a dict, element of a list, substring of
\* a str; any other operand raises TypeError
SupportsIn(data) == data.type \in {"object", "array", "string"}

Contains(data, key) ==
    CASE data.type = "object" -> key \in data.keys
      [] data.type = "array" -> key \in data.keys
      [] data.type = "string" -> data.str = key
      [] OTHER -> FALSE

\* an exception raised inside the try block
Exc(type, msg, detail) == [kind |-> "exc", type |-> type, msg |-> msg,
                           detail |-> detail, translated_text |-> ""]

Returned(translated_text) ==
    [kind |-> "return", type |-> "", msg |-> "", detail |-> <<>>,
     translated_text |-> translated_text]

\* the body of the try block, from the answer of client.post on
TryBody(resp) ==
    IF resp.failed THEN Exc("ConnectError", resp.error, <<>>)
    ELSE IF ~IsSuccess(resp.status_code)
    THEN Exc("HTTPStatusError", "status error", <<>>)
    ELSE LET data == ResponseJson(resp.text) IN
         IF data.type = "invalid"
         THEN Exc("JSONDecodeError", "Expecting value", <<>>)
         ELSE IF ~SupportsIn(data)
         THEN Exc("TypeError", "argument is not iterable", <<>>)
         ELSE IF ~Contains(data, "translatedText")
         THEN Exc("HTTPException", "", <<"Unexpected API response format.">>)
         ELSE IF data.type # "object"
         THEN Exc("TypeError", "indices must be integers", <<>>)
         ELSE IF data.ttype # "string"
         THEN Exc("ValidationError", "translated_text: not a valid string", <<>>)
         ELSE Returned(data.tvalue)

\* str(e): the exception's message; for an HTTPException, either the empty
\* string (no positional args) or "<status_code>: <detail>", depending on
\* the installed Starlette
StrOf(e) ==
    IF e.type = "HTTPException"
    THEN {"", "500: Unexpected API response format."}
    ELSE {e.msg}

\* the first except clause formatting str(e) instead of e.response.text
ExceptNoBody(e, resp, s) ==
    IF e.type = "HTTPStatusError"
    THEN HTTPException(500, <<"Translation service error: ", s>>)
    ELSE HTTPException(500, <<"Internal server error: ", s>>)

\* the catch-all clause left out: anything but HTTPStatusError escapes
ExceptStatusOnly(e, resp, s) ==
    IF e.type = "HTTPStatusError"
    THEN HTTPException(500, <<"Translation service error: ", resp.text>>)
    ELSE IF e.type = "HTTPException"
    THEN HTTPException(500, e.detail)
    ELSE [kind |-> "unhandled", status_code |-> 0, detail |-> <<e.type, e.msg>>,
          translated_text |-> ""]

\* the two except clauses; s is str(e)
Except(e, resp, s) ==
    IF e.type = "HTTPStatusError"
    THEN HTTPException(500, <<"Translation service error: ", resp.text>>)
    ELSE HTTPException(500, <<"Internal server error: ", s>>)

\* translate_text from the answer of client.post to its end
Complete(resp, s) ==
    LET t == TryBody(resp) IN
    IF t.kind = "return" THEN TranslationResponse(t.translated_text)
    ELSE Except(t, resp, s)

(* --------------------------- translate_gradio ------------------------- *)

NoUi == [kind |-> "none", value |-> <<>>, status_code |-> 0, detail |-> <<>>,
         source_lang_name |-> "", target_lang_name |-> ""]

\* the tail of translate_gradio: the awaited handler returned or raised
GradioFinish(o, u) ==
    IF o.kind = "return"
    THEN [u EXCEPT !.kind = "return", !.value = <<o.translated_text>>]
    ELSE [u EXCEPT !.kind = "raise", !.status_code = o.status_code,
                   !.detail = o.detail]

(* ------------------------------ inputs -------------------------------- *)

Alphabet == {" ", "\n", "a"}

RECURSIVE TextsUpTo(_)
TextsUpTo(n) ==
    IF n = 0 THEN {<<>>}
    ELSE LET shorter == TextsUpTo(n - 1)
         IN  shorter \cup {Append(t, ch) : t \in shorter, ch \in Alphabet}

Texts == TextsUpTo(MaxLen)

\* codes outside the table: unknown, wrong case, a display name
UnsupportedCodes == {"xx", "EN", "English"}

Codes == DOMAIN SUPPORTED_LANGUAGES \cup UnsupportedCodes

StatusCodes == {200, 201, 404, 503}

Responses == {Response(st, b) : st \in StatusCodes, b \in Bodies}

TransportErrors == {"All connection attempts failed"}

\* the smaller inputs of the concurrent specification
ConcTexts == {<<>>, <<"a">>}
ConcCodes == {"en", "es", "xx"}
ConcResponses ==
    {Response(st, b) : st \in {200, 503}, b \in {BodyHola, BodyEmptyObject}}

(* ------------------------------ actions ------------------------------- *)

Init ==
    /\ pc = [c \in CallIds |-> "idle"]
    /\ entry = [c \in CallIds |-> "none"]
    /\ request = [c \in CallIds |-> NoRequest]
    /\ posts = [c \in CallIds |-> <<>>]
    /\ response = [c \in CallIds |-> NoResponse]
    /\ outcome = [c \in CallIds |-> NoOutcome]
    /\ ui = [c \in CallIds |-> NoUi]

\* translate_text from its entry to the awaited client.post, or to the
\* HTTPException of the first failing check; u is the caller's record
Begin(c, how, req, u) ==
    LET v == Validate(req) IN
    /\ entry' = [entry EXCEPT ![c] = how]
    /\ request' = [request EXCEPT ![c] = req]
    /\ response' = response
    /\ IF v.kind = "raise"
       THEN /\ pc' = [pc EXCEPT ![c] = "done"]
            /\ posts' = posts
            /\ outcome' = [outcome EXCEPT ![c] = v]
            /\ ui' = [ui EXCEPT ![c] = IF how = "gradio" THEN GradioFinish(v, u) ELSE u]
       ELSE /\ pc' = [pc EXCEPT ![c] = "awaiting"]
            /\ posts' = [posts EXCEPT ![c] = Append(@, Post(req))]
            /\ outcome' = outcome
            /\ ui' = [ui EXCEPT ![c] = u]

\* POST /translate with a request body
TranslateText(c, texts, codes) ==
    /\ pc[c] = "idle"
    /\ \E text \in texts, source_lang \in codes, target_lang \in codes :
          Begin(c, "http", TranslationRequest(text, source_lang, target_lang), NoUi)

\* the UI submits a text and two dropdown selections
TranslateGradio(c, texts) ==
    /\ pc[c] = "idle"
    /\ \E text \in texts, source_lang_name \in DropdownChoices,
          target_lang_name \in DropdownChoices :
          LET inv_langs == InvLangs
              u == [NoUi EXCEPT !.source_lang_name = source_lang_name,
                                !.target_lang_name = target_lang_name]
          IN  IF source_lang_name \notin DOMAIN inv_langs
                 \/ target_lang_name \notin DOMAIN inv_langs
              THEN \* KeyError leaves translate_gradio before any request
                   /\ pc' = [pc EXCEPT ![c] = "done"]
                   /\ entry' = [entry EXCEPT ![c] = "gradio"]
                   /\ ui' = [ui EXCEPT ![c] = [u EXCEPT !.kind = "raise",
                                                        !.detail = <<"KeyError">>]]
                   /\ UNCHANGED <<request, posts, response, outcome>>
              ELSE Begin(c, "gradio",
                         TranslationRequest(text, inv_langs[source_lang_name],
                                            inv_langs[target_lang_name]), u)

\* the handler posting once more when the first answer is no success
FinishRetry(c, resp) ==
    /\ pc[c] = "awaiting"
    /\ \E s \in StrOf(TryBody(resp)) :
          LET o == Complete(resp, s) IN
          /\ pc' = [pc EXCEPT ![c] = "done"]
          /\ response' = [response EXCEPT ![c] = resp]
          /\ outcome' = [outcome EXCEPT ![c] = o]
          /\ ui' = [ui EXCEPT ![c] = IF entry[c] = "gradio"
                                     THEN GradioFinish(o, @) ELSE @]
          /\ posts' = [posts EXCEPT ![c] = IF o.kind = "return" THEN @
                                           ELSE Append(@, Post(request[c]))]
          /\ UNCHANGED <<entry, request>>

\* the awaited client.post ends with resp; the handler runs to its end
Finish(c, resp) ==
    /\ pc[c] = "awaiting"
    /\ \E s \in StrOf(TryBody(resp)) :
          LET o == Complete(resp, s) IN
          /\ pc' = [pc EXCEPT ![c] = "done"]
          /\ response' = [response EXCEPT ![c] = resp]
          /\ outcome' = [outcome EXCEPT ![c] = o]
          /\ ui' = [ui EXCEPT ![c] = IF entry[c] = "gradio"
                                     THEN GradioFinish(o, @) ELSE @]
          /\ posts' = posts
          /\ UNCHANGED <<entry, request>>

\* the backend answers
BackendResponds(c, resps) == \E resp \in resps : Finish(c, resp)

\* the transport fails outright
TransportFails(c) == \E err \in TransportErrors : Finish(c, TransportFailure(err))

HttpCall == TranslateText(1, Texts, Codes)
UiCall == TranslateGradio(1, Texts)
Answer == BackendResponds(1, Responses)
Failure == TransportFails(1)

Next == HttpCall \/ UiCall \/ Answer \/ Failure

Spec == Init /\ [][Next]_vars

ConcHttpCall == \E c \in CallIds : TranslateText(c, ConcTexts, ConcCodes)
ConcAnswer == \E c \in CallIds : BackendResponds(c, ConcResponses)
ConcFailure == \E c \in CallIds : TransportFails(c)

NextConc == ConcHttpCall \/ ConcAnswer \/ ConcFailure

SpecConc == Init /\ [][NextConc]_vars

(* ------------------------ vocabulary of the claims --------------------- *)

\* the 13 codes of the supported-language table
RegistryCodes ==
    {"en", "es", "fr", "de", "it", "pt", "ru", "zh", "ar", "tr", "ja", "ko", "hi"}

\* empty, or whitespace only
Blank(text) == \A i \in DOMAIN text : text[i] \in Whitespace

WellFormed(req) ==
    /\ ~Blank(req.text)
    /\ req.source_lang \in RegistryCodes
    /\ req.target_lang \in RegistryCodes

\* translate_text was entered by call c and has ended
Completed(c) == pc[c] = "done" /\ outcome[c].kind # "none"

\* the backend answered call c with an HTTP response
Answered(c) == Completed(c) /\ response[c] # NoResponse /\ ~response[c].failed

SuccessStatus(c) == response[c].status_code \in 200..299

\* the answer's body is a JSON object with a translatedText member
HasTranslatedText(c) ==
    LET data == ResponseJson(response[c].text)
    IN  data.type = "object" /\ "translatedText" \in data.keys

\* the error kind of a raised HTTPException
ErrorKind(o) ==
    IF o.kind # "raise" \/ o.detail = <<>> THEN "unstructured"
    ELSE IF o.status_code = 400 THEN "InvalidInput"
    ELSE IF o.status_code = 500 /\ o.detail[1] = "Translation service error: "
    THEN "UpstreamError"
    ELSE IF o.status_code = 500
            /\ o.detail[1] \in {"Internal server error: ",
                                "Unexpected API response format."}
    THEN "InternalError"
    ELSE "unstructured"

\* the check that produced a validation message
CheckOf(o) ==
    IF o.kind # "raise" \/ o.status_code # 400 \/ o.detail = <<>> THEN "none"
    ELSE IF o.detail = <<"Text is required.">> THEN "text"
    ELSE IF o.detail[1] = "Unsupported source language: " THEN "source"
    ELSE IF o.detail[1] = "Unsupported target language: " THEN "target"
    ELSE "none"

\* the earliest of the three checks a request fails
FirstFailing(req) ==
    IF Blank(req.text) THEN "text"
    ELSE IF req.source_lang \notin RegistryCodes THEN "source"
    ELSE IF req.target_lang \notin RegistryCodes THEN "target"
    ELSE "none"

\* the message of an HTTPException names the code
Names(o, code) == \E i \in DOMAIN o.detail : o.detail[i] = code

(* ------------------------------- claims -------------------------------- *)

\* C1, as stated: a well-formed request (equal source and target included)
\* answered with a success status and a JSON body whose translatedText is t
\* returns a result whose translated_text is t, whatever t is.
C1_AnyTranslatedTextReturned ==
    \A c \in CallIds :
        (Answered(c) /\ WellFormed(request[c]) /\ SuccessStatus(c)
            /\ HasTranslatedText(c))
        => /\ outcome[c].kind = "return"
           /\ outcome[c].translated_text = ResponseJson(response[c].text).tvalue

\* C1, amended: a well-formed request (equal source and target included)
\* answered with a success status and a JSON body whose translatedText is the
\* string t returns a result whose translated_text is exactly t.
C1_StringTranslatedTextReturned ==
    \A c \in CallIds :
        (Answered(c) /\ WellFormed(request[c]) /\ SuccessStatus(c)
            /\ HasTranslatedText(c)
            /\ ResponseJson(response[c].text).ttype = "string")
        => /\ outcome[c] = TranslationResponse(ResponseJson(response[c].text).tvalue)
           /\ posts[c] = <<Post(request[c])>>

C1_Witness ==
    \E c \in CallIds :
        /\ Answered(c)
        /\ request[c].source_lang = "en" /\ request[c].target_lang = "en"
        /\ response[c] = Response(201, BodyHola)
        /\ outcome[c].kind = "return" /\ outcome[c].translated_text = "Hola"

\* C2, as stated: a call with a code outside the 13 registry codes as
\* sourceLang or as targetLang fails with InvalidInput (400) and the message
\* names every such offending code.
C2_EveryOffendingCodeNamed ==
    \A c \in CallIds :
        Completed(c) =>
            /\ request[c].source_lang \notin RegistryCodes
               => /\ ErrorKind(outcome[c]) = "InvalidInput"
                  /\ Names(outcome[c], request[c].source_lang)
            /\ request[c].target_lang \notin RegistryCodes
               => /\ ErrorKind(outcome[c]) = "InvalidInput"
                  /\ Names(outcome[c], request[c].target_lang)

\* C2, amended: a call with a code outside the 13 registry codes as
\* sourceLang or as targetLang fails with InvalidInput (400) and sends
\* nothing; the message names the offending sourceLang when the text is not
\* blank, and the offending targetLang when the text is not blank and
\* sourceLang is supported.
C2_FirstOffendingCodeNamed ==
    \A c \in CallIds :
        Completed(c) =>
            /\ (request[c].source_lang \notin RegistryCodes
                \/ request[c].target_lang \notin RegistryCodes)
               => /\ ErrorKind(outcome[c]) = "InvalidInput"
                  /\ posts[c] = <<>>
            /\ (~Blank(request[c].text)
                /\ request[c].source_lang \notin RegistryCodes)
               => outcome[c].detail =
                      <<"Unsupported source language: ", request[c].source_lang>>
            /\ (~Blank(request[c].text)
                /\ request[c].source_lang \in RegistryCodes
                /\ request[c].target_lang \notin RegistryCodes)
               => outcome[c].detail =
                      <<"Unsupported target language: ", request[c].target_lang>>

C2_Witness ==
    \E c \in CallIds :
        /\ Completed(c)
        /\ request[c] = TranslationRequest(<<"a">>, "es", "EN")
        /\ outcome[c] = HTTPException(400, <<"Unsupported target language: ", "EN">>)

\* C3: a call whose text is empty or whitespace only fails with InvalidInput
\* (400, "Text is required."), whatever the two language codes are, and
\* nothing is sent.
C3_BlankTextRejected ==
    \A c \in CallIds :
        (request[c] # NoRequest /\ Blank(request[c].text))
        => /\ pc[c] = "done"
           /\ outcome[c] = HTTPException(400, <<"Text is required.">>)
           /\ posts[c] = <<>>

C3_Witness ==
    \E c \in CallIds :
        /\ Completed(c)
        /\ request[c].text = <<" ", "\n">>
        /\ request[c].source_lang = "xx"
        /\ request[c].target_lang = "es"
        /\ outcome[c].status_code = 400

\* C4: a call that passed validation and was answered with a non-success
\* status fails with UpstreamError (500) whose message carries the body of
\* the answer.
C4_UpstreamErrorCarriesBody ==
    \A c \in CallIds :
        (Answered(c) /\ ~SuccessStatus(c))
        => /\ WellFormed(request[c])
           /\ ErrorKind(outcome[c]) = "UpstreamError"
           /\ outcome[c].status_code = 500
           /\ outcome[c].detail = <<"Translation service error: ", response[c].text>>

C4_Witness ==
    \E c \in CallIds :
        /\ Answered(c)
        /\ response[c] = Response(503, BodyPlainText)
        /\ outcome[c].detail = <<"Translation service error: ", BodyPlainText>>

\* C5: a call that passed validation and was answered with a success status
\* and a JSON object that has no translatedText member fails with
\* InternalError (500) whose message is "Unexpected API response format.".
C5_UnexpectedFormatMessage ==
    \A c \in CallIds :
        (Answered(c) /\ SuccessStatus(c)
            /\ ResponseJson(response[c].text).type = "object"
            /\ ~HasTranslatedText(c))
        => outcome[c] = HTTPException(500, <<"Unexpected API response format.">>)

\* C6: every call that ends, ends in a result or in one of InvalidInput
\* (400), UpstreamError (500), InternalError (500); a transport failure or an
\* unparseable body ends in InternalError carrying the failure's description.
C6_StructuredOutcomes ==
    \A c \in CallIds :
        /\ pc[c] = "done" /\ request[c] # NoRequest
           => \/ /\ outcome[c].kind = "return"
                 /\ ErrorKind(outcome[c]) = "unstructured"
              \/ /\ outcome[c].kind = "raise"
                 /\ ErrorKind(outcome[c])
                        \in {"InvalidInput", "UpstreamError", "InternalError"}
        /\ (Completed(c) /\ response[c].failed)
           => outcome[c] =
                  HTTPException(500, <<"Internal server error: ", response[c].error>>)
        /\ (Answered(c) /\ SuccessStatus(c)
               /\ ResponseJson(response[c].text).type = "invalid")
           => /\ ErrorKind(outcome[c]) = "InternalError"
              /\ outcome[c].detail = <<"Internal server error: ", "Expecting value">>

C6_Witness ==
    \E c \in CallIds :
        /\ Completed(c)
        /\ response[c] = TransportFailure("All connection attempts failed")
        /\ ErrorKind(outcome[c]) = "InternalError"

\* C7: translate_gradio always ends by returning a string: the translated
\* text when the handler succeeds, the handler's error message when the
\* handler fails.
C7_UiAlwaysReturnsString ==
    \A c \in CallIds :
        (pc[c] = "done" /\ entry[c] = "gradio")
        => /\ ui[c].kind = "return"
           /\ outcome[c].kind = "return" => ui[c].value = <<outcome[c].translated_text>>
           /\ outcome[c].kind = "raise" => ui[c].value = outcome[c].detail

\* C8: the inverted table gives back, for each of the 13 codes, the code
\* whose display name was looked up; so the request translate_gradio builds
\* carries the codes of the two names selected.
C8_ReverseLookupInverse ==
    /\ DOMAIN SUPPORTED_LANGUAGES = RegistryCodes
    /\ \A code \in RegistryCodes :
          /\ SUPPORTED_LANGUAGES[code] \in DOMAIN InvLangs
          /\ InvLangs[SUPPORTED_LANGUAGES[code]] = code
    /\ \A c \in CallIds :
          (entry[c] = "gradio" /\ request[c] # NoRequest)
          => /\ request[c].source_lang \in RegistryCodes
             /\ request[c].target_lang \in RegistryCodes
             /\ SUPPORTED_LANGUAGES[request[c].source_lang] = ui[c].source_lang_name
             /\ SUPPORTED_LANGUAGES[request[c].target_lang] = ui[c].target_lang_name

C8_Witness ==
    \E c \in CallIds :
        /\ entry[c] = "gradio"
        /\ ui[c].source_lang_name = "Spanish"
        /\ ui[c].target_lang_name = "Portuguese"
        /\ request[c].source_lang = "es"
        /\ request[c].target_lang = "pt"
        /\ pc[c] = "awaiting"

\* C9: the checks run in the order text, sourceLang, targetLang and stop at
\* the first that fails: the message reported is the one of the earliest
\* failing check and of no other check (the three messages differ), and the
\* call ends there.
C9_FirstFailingCheckReported ==
    \A c \in CallIds :
        (Completed(c) /\ FirstFailing(request[c]) # "none")
        => /\ outcome[c].status_code = 400
           /\ CheckOf(outcome[c]) = FirstFailing(request[c])
           /\ response[c] = NoResponse

C9_Witness ==
    \E c \in CallIds :
        /\ Completed(c)
        /\ request[c] = TranslationRequest(<<"a">>, "xx", "EN")
        /\ CheckOf(outcome[c]) = "source"

\* C10: each call sends exactly one request when its three checks pass and
\* none when a check fails, never a second one whatever the answer, and
\* whatever the other calls in flight are doing.
C10_OneRequestPerValidCall ==
    \A c \in CallIds :
        /\ Len(posts[c]) <= 1
        /\ pc[c] = "idle" => posts[c] = <<>>
        /\ pc[c] # "idle"
           => posts[c] = IF WellFormed(request[c]) THEN <<Post(request[c])>> ELSE <<>>

C10_Witness ==
    \E c, d \in CallIds :
        /\ c # d
        /\ Completed(c) /\ response[c] = Response(503, BodyEmptyObject)
        /\ Len(posts[c]) = 1
        /\ pc[d] = "awaiting" /\ Len(posts[d]) = 1

====
